---------------------------- MODULE Spec2Model ----------------------------
(***************************************************************************)
(* Browser process supervision of mcp-whatsapp-web: the PID registry       *)
(* (.chrome-pids.json), the orphan reclaim pass, the session lifecycle of  *)
(* the server process, its graceful shutdown, and the manual sweep tool.   *)
(***************************************************************************)
EXTENDS Integers, Sequences, FiniteSets, TLC

(***************************************************************************)
(* Bounds of the model.                                                    *)
(***************************************************************************)
MaxPid == 2
MaxTicks == 2
MaxSignals == 2
MaxStarts == 2
MaxTeardowns == 2

(***************************************************************************)
(* Program constants.                                                      *)
(***************************************************************************)
\* browser-process-manager.ts:179   10 * 60 * 1000
OrphanAgeMs == 600000
\* the model's clock advances in steps of the threshold: ages of 0, of
\* exactly 10 minutes and of more than 10 minutes all occur
TickMs == OrphanAgeMs

Pids == 1..MaxPid
\* the value of a pid that is "not a pid" (null / 0: falsy in the source)
NoPid == 0
MaxClock == MaxTicks * TickMs
Times == {k * TickMs : k \in 0..MaxTicks}

Range(s) == {s[k] : k \in 1..Len(s)}

VARIABLES
  clock,      \* Date.now()
  os,         \* the host's process table: pid -> command id, or NoProc
  file,       \* content of .chrome-pids.json: a sequence of BrowserProcess
  disk,       \* what .chrome-pids.json is: the JSON array `file`, or absent,
              \* or no JSON text, or JSON of another shape (file is then empty)
  pass,       \* per thread of control: the cleanupOrphanedProcesses call in progress
  replay,     \* the set of pids obtained by replaying the register/unregister calls
  idem,       \* two reclaim passes in a frozen environment: faults, runs, first result
  srv,        \* the server process: index.ts, WhatsAppMcpServer, WhatsAppService
  sw          \* the manual sweep process: cleanup-browsers.ts

\* ------------------------------------------------------------------------
\* Host processes.
\* ------------------------------------------------------------------------
NoProc == "none"
\* command ids of the processes the host can run; CommandLine gives the text
Cmds == {"wa", "plain", "vim"}

\* ------------------------------------------------------------------------
\* BrowserProcessManager instances.  Every constructor call draws a fresh
\* serverInstanceId (Date.now() + random suffix): one distinct id per
\* manager object.  "X" is the id of a manager of an earlier run that is
\* gone; "G", "M", "S" are the managers of index.ts, of WhatsAppMcpServer
\* and of WhatsAppService in one server process; "W" is the manager of the
\* manual sweep.
\* ------------------------------------------------------------------------
DeadId == "X"
IndexMgr == "G"
ServerMgr == "M"
ServiceMgr == "S"
SweepMgr == "W"
ManagerIds == {IndexMgr, ServerMgr, ServiceMgr, SweepMgr}
OwnerIds == ManagerIds \cup {DeadId}

BrowserProcess == [pid : Pids, startTime : Times, serverInstanceId : OwnerIds]

Threads == {"main", "sd", "sweep", "tool"}

\* ------------------------------------------------------------------------
\* Registry file.
\* ------------------------------------------------------------------------
DiskKinds == {"array", "locked", "absent", "garbage", "object"}

\* lines 40-50: the parsed content; [] when the file is absent or is no JSON
\* text (existsSync false, or JSON.parse throws into the catch)
readProcesses == IF disk \in {"array", "locked"} THEN file ELSE <<>>

\* line 44: JSON.parse succeeded on a text that is no array ({}, null, a
\* number): readProcesses returns that value as it is, and the first array
\* operation of the caller (findIndex, filter, for...of) throws a TypeError
NotAnArray == disk = "object"

\* lines 56-62: writeFileSync; when it throws (here: a file that cannot be
\* written) the error is logged and the file stays as it is
saveProcesses(processes) ==
  IF disk = "locked"
  THEN UNCHANGED <<file, disk>>
  ELSE file' = processes /\ disk' = "array"

\* Array.prototype.findIndex, 1-based; 0 when there is none (source: -1)
FindIndex(processes, pid) ==
  IF \E k \in 1..Len(processes) : processes[k].pid = pid
  THEN CHOOSE k \in 1..Len(processes) :
         /\ processes[k].pid = pid
         /\ \A j \in 1..(k - 1) : processes[j].pid # pid
  ELSE 0

NewEntry(pid, now, id) == [pid |-> pid, startTime |-> now, serverInstanceId |-> id]

\* a slip in registerProcess: the entry pushed whether the pid is there or
\* not
RegisterResult_Push(processes, pid, now, id) ==
  Append(processes, NewEntry(pid, now, id))

\* the array registerProcess saves
RegisterResult(processes, pid, now, id) ==
  LET existingIndex == FindIndex(processes, pid) IN
  IF existingIndex >= 1
  THEN [processes EXCEPT ![existingIndex] = NewEntry(pid, now, id)]
  ELSE Append(processes, NewEntry(pid, now, id))

\* a slip in the filter: === in the place of !==
UnregisterResult_Inverted(processes, pid) ==
  SelectSeq(processes, LAMBDA p : p.pid = pid)

\* processes.filter(p => p.pid !== pid)
UnregisterResult(processes, pid) ==
  SelectSeq(processes, LAMBDA p : p.pid # pid)

\* line 78: processes.findIndex is no function of a value that is no array
RegisterThrows(pid) == pid # NoPid /\ NotAnArray

\* a slip in unregisterProcess: the registry read before the pid is tested
UnregisterThrows_OnNull(pid) == NotAnArray

\* line 110: processes.filter is no function of a value that is no array
UnregisterThrows(pid) == pid # NoPid /\ NotAnArray

registerProcess(id, pid) ==
  IF pid = NoPid \/ RegisterThrows(pid)
  THEN UNCHANGED <<file, disk>>
  ELSE saveProcesses(RegisterResult(readProcesses, pid, clock, id))

\* a slip in unregisterProcess: the array saved whatever the filter did
SomethingRemoved_Always(processes, filteredProcesses) == TRUE

\* line 112: if (processes.length !== filteredProcesses.length)
SomethingRemoved(processes, filteredProcesses) ==
  Len(processes) # Len(filteredProcesses)

unregisterProcess(id, pid) ==
  IF pid = NoPid \/ UnregisterThrows(pid)
  THEN UNCHANGED <<file, disk>>
  ELSE LET processes == readProcesses
           filteredProcesses == UnregisterResult(processes, pid)
       IN IF SomethingRemoved(processes, filteredProcesses)
          THEN saveProcesses(filteredProcesses)
          ELSE UNCHANGED <<file, disk>>

\* ------------------------------------------------------------------------
\* Liveness probe and kill: the outcomes of the exec'd commands.
\* ------------------------------------------------------------------------
\* isProcessRunning: true only when the process table has the pid; any
\* failure of the probing command is reported as false
ProbeOutcomes(pid) ==
  IF pid \in DOMAIN os /\ os[pid] # NoProc THEN {TRUE, FALSE} ELSE {FALSE}

\* killProcess: true when the kill command succeeded (the process is gone),
\* false when it failed (no such process, no permission)
KillOutcomes(pid) ==
  IF pid \in DOMAIN os /\ os[pid] # NoProc THEN {TRUE, FALSE} ELSE {FALSE}

KillEffect(pid, killed) ==
  IF killed THEN os' = [os EXCEPT ![pid] = NoProc] ELSE UNCHANGED os

\* the variables no step of the registry or of a reclaim pass touches
others == <<replay, idem, srv, sw>>

\* ------------------------------------------------------------------------
\* cleanupOrphanedProcesses, one call per thread of control.
\* ------------------------------------------------------------------------
NoExec == [cmd |-> "none", pid |-> NoPid]

IdlePass ==
  [pc |-> "idle", mgr |-> DeadId, processes |-> <<>>, i |-> 0, valid |-> <<>>,
   running |-> <<>>, age |-> <<>>, killed |-> <<>>, exec |-> NoExec]

\* a slip in the write-back: the first kept entry left out
Kept_SkipFirst(p) == [k \in 1..(Len(p.valid) - 1) |-> p.processes[p.valid[k + 1]]]

\* validProcesses: the entries whose indices were pushed
Kept(p) == [k \in 1..Len(p.valid) |-> p.processes[p.valid[k]]]

\* a slip in the orphan test: "or" in the place of "and"
IsOrphaned_Or(entry, id, now) ==
  \/ entry.serverInstanceId # id
  \/ now - entry.startTime > OrphanAgeMs

\* a slip in the orphan test: the threshold taken as ten hours
IsOrphaned_TenHours(entry, id, now) ==
  /\ entry.serverInstanceId # id
  /\ now - entry.startTime > 60 * OrphanAgeMs

\* lines 177-181: !isFromCurrentInstance && isOld
IsOrphaned(entry, id, now) ==
  /\ entry.serverInstanceId # id
  /\ now - entry.startTime > OrphanAgeMs

\* a slip in the loop body: the orphan test made without the liveness test
Decision_NoLivenessTest(isRunning, entry, id, now) ==
  IF entry.serverInstanceId # id /\ now - entry.startTime > OrphanAgeMs
  THEN "kill"
  ELSE "keep"

\* lines 173-192: what the loop body does with an entry once its probe is in
Decision(isRunning, entry, id, now) ==
  IF isRunning
  THEN IF IsOrphaned(entry, id, now) THEN "kill" ELSE "keep"
  ELSE "drop"

\* a slip in the kill: the loop index handed over in the place of the pid
KillTarget_Index(p) == p.i

\* the pid handed to killProcess for entry i
KillTarget(p) == p.processes[p.i].pid

\* the pid handed to isProcessRunning for entry i
ProbeTarget(processes, i) == processes[i].pid

\* end of one loop iteration: next entry, or line 197 after the last one
Advance(t, p) ==
  IF p.i = Len(p.processes)
  THEN /\ pass' = [pass EXCEPT ![t] = [p EXCEPT !.pc = "done", !.exec = NoExec]]
       /\ saveProcesses(Kept(p))
  ELSE /\ pass' = [pass EXCEPT ![t] =
                     [p EXCEPT !.pc = "probe", !.i = p.i + 1,
                               !.exec = [cmd |-> "ps",
                                         pid |-> ProbeTarget(p.processes, p.i + 1)]]]
       /\ UNCHANGED <<file, disk>>

\* lines 166-171: the call up to its first await, on the array just read:
\* with no entry the call runs to its end, else the first probe is issued
BegunPass(id, processes) ==
  IF Len(processes) = 0
  THEN [IdlePass EXCEPT !.pc = "done", !.mgr = id]
  ELSE [IdlePass EXCEPT !.pc = "probe", !.mgr = id, !.processes = processes, !.i = 1,
                        !.exec = [cmd |-> "ps", pid |-> ProbeTarget(processes, 1)]]

\* lines 166-171 (and line 197 when the registry read is empty)
\* line 170: for...of over a value that is no array throws; the call ends
\* there, its promise rejected, with nothing probed and nothing written
PassBegin(t, id) ==
  /\ pass[t].pc \in {"idle", "done", "threw"}
  /\ IF NotAnArray
     THEN /\ pass' = [pass EXCEPT ![t] = [IdlePass EXCEPT !.pc = "threw", !.mgr = id]]
          /\ UNCHANGED <<file, disk>>
     ELSE LET processes == readProcesses IN
          /\ pass' = [pass EXCEPT ![t] = BegunPass(id, processes)]
          /\ IF Len(processes) = 0 THEN saveProcesses(<<>>) ELSE UNCHANGED <<file, disk>>

\* lines 171-192: the probe of entry i returns
PassProbe(t) ==
  /\ pass[t].pc = "probe"
  /\ \E isRunning \in ProbeOutcomes(pass[t].exec.pid) :
       LET p == pass[t]
           entry == p.processes[p.i]
           processAgeMs == clock - entry.startTime
           q == [p EXCEPT !.running = Append(p.running, isRunning),
                          !.age = Append(p.age, processAgeMs),
                          !.killed = Append(p.killed, "none")]
           todo == Decision(isRunning, entry, p.mgr, clock)
       IN CASE todo = "kill" ->
                 /\ pass' = [pass EXCEPT ![t] =
                               [q EXCEPT !.pc = "kill",
                                         !.exec = [cmd |-> "kill", pid |-> KillTarget(p)]]]
                 /\ UNCHANGED <<file, disk>>
            [] todo = "keep" -> Advance(t, [q EXCEPT !.valid = Append(p.valid, p.i)])
            [] todo = "drop" -> Advance(t, q)
  /\ UNCHANGED <<clock, os, others>>

\* a slip after the kill: the entry dropped whatever the kill returned
KeepsEntry_Never(killed) == FALSE

\* lines 184-187: if (!killed) validProcesses.push(process)
KeepsEntry(killed) == ~killed

\* lines 183-187: the kill of orphaned entry i returns
PassKill(t) ==
  /\ pass[t].pc = "kill"
  /\ \E killed \in KillOutcomes(pass[t].exec.pid) :
       LET p == pass[t]
           q == [p EXCEPT !.killed[p.i] = IF killed THEN "ok" ELSE "failed"]
       IN /\ KillEffect(p.exec.pid, killed)
          /\ IF KeepsEntry(killed)
             THEN Advance(t, [q EXCEPT !.valid = Append(p.valid, p.i)])
             ELSE Advance(t, q)
  /\ UNCHANGED <<clock, others>>

\* the caller resumes after `await cleanupOrphanedProcesses()`
PassReturn(t) ==
  /\ pass[t].pc = "done"
  /\ pass' = [pass EXCEPT ![t] = IdlePass]

\* ------------------------------------------------------------------------
\* Environment.
\* ------------------------------------------------------------------------
Tick ==
  /\ clock < MaxClock
  /\ clock' = clock + TickMs
  /\ UNCHANGED <<os, file, disk, pass, others>>

ProcExit(pid) ==
  /\ os[pid] # NoProc
  /\ os' = [os EXCEPT ![pid] = NoProc]
  /\ UNCHANGED <<clock, file, disk, pass, others>>

ProcSpawn(pid, c) ==
  /\ os[pid] = NoProc
  /\ os' = [os EXCEPT ![pid] = c]
  /\ UNCHANGED <<clock, file, disk, pass, others>>

vars == <<clock, os, file, disk, pass, replay, idem, srv, sw>>

\* ------------------------------------------------------------------------
\* The server process: main() and gracefulShutdown() of index.ts,
\* WhatsAppMcpServer.start / shutdown, WhatsAppService.initialize / destroy.
\* A step runs from one await (or event) to the next.
\* ------------------------------------------------------------------------
Alive == ~srv.exited

\* getBrowserPid: the pid of the client's browser, or null when no handle
\* gives it (a best-effort lookup)
BrowserPidOutcomes == {srv.clientPid, NoPid}

\* nothing is awaited
Settled_Always(t) == TRUE

\* a reclaim pass awaited by thread t has settled: returned, or thrown
Settled(t) == pass[t].pc \in {"done", "threw"}

\* a reclaim pass has settled and the code that awaits it has not resumed
\* yet: it resumes as a microtask, before any other callback of the event
\* loop (a signal, a timer, the answer of a child process or of the
\* backend) is run
Resuming ==
  \/ srv.mainPc \in {"cleanup", "start_cleanup", "init_cleanup"} /\ Settled("main")
  \/ /\ srv.sdPc \in {"noserver_cleanup", "final_cleanup", "emergency_cleanup"}
     /\ Settled("sd")
  \/ srv.toolPc = "init_cleanup" /\ Settled("tool")

\* the event loop is free to run the next callback: main() has run up to
\* its first await (index.ts:126 calls it when the module is loaded) and no
\* awaiting code is about to resume
Idle == Alive /\ srv.mainPc # "start" /\ ~Resuming

\* index.ts:105  main awaits the reclaim pass of the module's manager
MainStart ==
  /\ Alive
  /\ srv.mainPc = "start"
  /\ PassBegin("main", IndexMgr)
  /\ srv' = [srv EXCEPT !.mainPc = "cleanup"]
  /\ UNCHANGED <<clock, os, replay, idem, sw>>

\* index.ts:103-118, server.ts:65-69  whether the first pass returned or
\* threw (main catches and goes on), the server is constructed and start()
\* awaits the reclaim pass of the server's manager
MainConstruct ==
  /\ Alive
  /\ srv.mainPc = "cleanup"
  /\ Settled("main")
  /\ PassBegin("main", ServerMgr)
  /\ srv' = [srv EXCEPT !.mainPc = "start_cleanup", !.serverInstance = TRUE]
  /\ UNCHANGED <<clock, os, replay, idem, sw>>

\* index.ts:38-58  gracefulShutdown up to its first await, for a call that
\* passed the guard: with a server, shutdown() -> destroy() reads the pid and
\* awaits client.destroy(); without one, the reclaim pass of the module's
\* manager is awaited
ShutdownEnter(r, pid) ==
  IF r.serverInstance
  THEN /\ srv' = [r EXCEPT !.isShuttingDown = TRUE, !.teardowns = r.teardowns + 1,
                           !.sdPc = "destroy", !.pid = pid,
                           !.sdLog = <<"pid", "destroy">>]
       /\ UNCHANGED <<file, disk, pass>>
  ELSE /\ srv' = [r EXCEPT !.isShuttingDown = TRUE, !.teardowns = r.teardowns + 1,
                           !.sdPc = "noserver_cleanup",
                           !.sdLog = <<"reclaim">>]
       /\ PassBegin("sd", IndexMgr)

\* a fault of the guard: no test of the flag
ShutdownGuard_Off == FALSE

\* index.ts:40  if (isShuttingDown) return
ShutdownGuard == srv.isShuttingDown

\* one call of gracefulShutdown(signal), made by record r's caller
GracefulShutdown(r) ==
  IF ShutdownGuard
  THEN /\ srv' = [r EXCEPT !.calls = r.calls + 1, !.returned = r.returned + 1]
       /\ UNCHANGED <<file, disk, pass>>
  ELSE \E pid \in BrowserPidOutcomes :
         ShutdownEnter([r EXCEPT !.calls = r.calls + 1], pid)

\* server.ts:74-77, index.ts:119-123  an error of start() goes up to main,
\* whose catch calls gracefulShutdown('startup failure'); an error of a
\* later call of initialize() goes to that call's caller
StartFailed(r) ==
  IF r.starts = 0
  THEN GracefulShutdown([r EXCEPT !.mainPc = "failed", !.result = "error"])
  ELSE /\ srv' = [r EXCEPT !.mainPc = "serving", !.result = "error"]
       /\ UNCHANGED <<file, disk, pass>>

\* a fault of initialize(): no test of the flag
AlreadyInitialized_Never(r) == FALSE

\* whatsapp.ts:154  if (this.isInitialized) return
AlreadyInitialized(r) == r.isInitialized

\* whatsapp.ts:153-160  initialize() up to its first await, for caller's
\* record r: when the session is ready it returns at once; else it awaits
\* the reclaim pass of the service's manager
InitializeEnter(r) ==
  IF AlreadyInitialized(r)
  THEN /\ srv' = [r EXCEPT !.mainPc = "serving", !.mainLog = <<"ready">>,
                          !.result = "ok"]
       /\ pass' = [pass EXCEPT !["main"] = IdlePass]
       /\ UNCHANGED <<file, disk>>
  ELSE /\ PassBegin("main", ServiceMgr)
       /\ srv' = [r EXCEPT !.mainPc = "init_cleanup", !.mainLog = <<"reclaim">>]

\* server.ts:69-72, whatsapp.ts:153-160  the pass of start() has settled.  If
\* it threw, start() fails.  Else initialize() is called: when the session
\* is ready it returns at once and start() goes on to the transport; else it
\* awaits the reclaim pass of the service's manager
MainInitialize ==
  /\ Alive
  /\ srv.mainPc = "start_cleanup"
  /\ Settled("main")
  /\ IF pass["main"].pc = "threw"
     THEN StartFailed(srv)
     ELSE InitializeEnter(srv)
  /\ UNCHANGED <<clock, os, replay, idem, sw>>

\* whatsapp.ts:160-164  the pass of initialize() has settled: if it threw,
\* initialize() and start() fail; else client.initialize() is called
MainClientInitialize ==
  /\ Alive
  /\ srv.mainPc = "init_cleanup"
  /\ Settled("main")
  /\ IF pass["main"].pc = "threw"
     THEN StartFailed(srv)
     ELSE /\ pass' = [pass EXCEPT !["main"] = IdlePass]
          /\ srv' = [srv EXCEPT !.mainPc = "launching", !.inits = srv.inits + 1,
                                !.inFlight = srv.inFlight + 1,
                                !.mainLog = srv.mainLog \o <<"reclaimed", "initialize">>]
          /\ UNCHANGED <<file, disk>>
  /\ UNCHANGED <<clock, os, replay, idem, sw>>

\* inside client.initialize(): puppeteer launches the browser under a pid
\* that is free
MainBrowserLaunched(pid) ==
  /\ Idle
  /\ srv.mainPc = "launching"
  /\ os[pid] = NoProc
  /\ os' = [os EXCEPT ![pid] = "wa"]
  /\ srv' = [srv EXCEPT !.mainPc = "injecting", !.clientPid = pid]
  /\ UNCHANGED <<clock, file, disk, pass, replay, idem, sw>>

\* a slip in initialize(): the registration made whatever the backend said
InitializeSucceeded_Always(ok) == TRUE

\* whatsapp.ts:163-177  the lines after `await this.client.initialize()` run
\* only when it resolved; when it rejected the catch rethrows
InitializeSucceeded(ok) == ok

\* whatsapp.ts:164-177, server.ts:79-83, index.ts:117-123  client.initialize()
\* has settled.  When it resolved the pid is looked up and registered, and
\* start() connects the transport (stdio, or SSE with a session).  When it
\* rejected, or the registration threw, the error goes up to main.
MainClientInitialized(ok) ==
  /\ Idle
  /\ srv.mainPc \in {"launching", "injecting"}
  /\ LET r == [srv EXCEPT !.initError = ~ok, !.inFlight = srv.inFlight - 1] IN
     IF InitializeSucceeded(ok)
     THEN /\ srv.mainPc = "injecting"
          /\ \E pid \in BrowserPidOutcomes :
               IF RegisterThrows(pid)
               THEN StartFailed([r EXCEPT !.found = pid])
               ELSE /\ registerProcess(ServiceMgr, pid)
                    /\ \E sse \in BOOLEAN :
                         srv' = [r EXCEPT !.mainPc = "serving", !.sse = sse,
                                          !.found = pid, !.result = "ok"]
                    /\ UNCHANGED pass
     ELSE StartFailed(r)
  /\ UNCHANGED <<clock, os, replay, idem, sw>>

\* index.ts:84-97  a signal or an uncaught error arrives: its handler calls
\* gracefulShutdown
Signal(sig) ==
  /\ Idle
  /\ srv.signals < MaxSignals
  /\ GracefulShutdown([srv EXCEPT !.signals = srv.signals + 1])
  /\ UNCHANGED <<clock, os, replay, idem, sw>>

\* a fault of gracefulShutdown: no catch around the teardown
ShutdownCatches_Off == FALSE

\* index.ts:48-66  the teardown runs inside try { } catch (error) { }
ShutdownCatches == TRUE

\* a slip in shutdown(): the safety-net pass started before the unregister
ShutdownSteps_ReclaimFirst(pid) ==
  <<"destroyed", "reclaim">> \o (IF pid # NoPid THEN <<"unregister">> ELSE <<>>)
    \o <<"transports">>

\* whatsapp.ts:188-196, server.ts:109-127  what shutdown() does once
\* client.destroy() has resolved, in this order: the pid read before is
\* unregistered (when there is one), the SSE transports are dropped, the
\* reclaim pass of the server's manager is started
ShutdownSteps(pid) ==
  <<"destroyed">> \o (IF pid # NoPid THEN <<"unregister">> ELSE <<>>)
    \o <<"transports", "reclaim">>

\* the registry the pass of shutdown() reads: the one unregisterProcess left
AfterUnregister(pid) ==
  IF pid = NoPid \/ disk = "locked"
  THEN readProcesses
  ELSE UnregisterResult(readProcesses, pid)

\* whatsapp.ts:187-206, server.ts:108-137, index.ts:66-71  client.destroy()
\* has settled.  When it resolved, the browser is closed and the steps of
\* ShutdownSteps follow.  When it rejected, or the unregister threw, the
\* error goes up to gracefulShutdown, whose catch awaits the reclaim pass of
\* the module's manager.
ShutdownDestroyed(ok, closed) ==
  /\ Idle
  /\ srv.sdPc = "destroy"
  /\ pass["sd"].pc \in {"idle", "done", "threw"}
  /\ IF closed /\ srv.clientPid # NoPid /\ os[srv.clientPid] = "wa"
     THEN os' = [os EXCEPT ![srv.clientPid] = NoProc]
     ELSE UNCHANGED os
  /\ IF ok /\ ~UnregisterThrows(srv.pid)
     THEN /\ closed
          /\ LET steps == ShutdownSteps(srv.pid)
                 processes == AfterUnregister(srv.pid)
             IN /\ IF NotAnArray
                   THEN /\ pass' = [pass EXCEPT !["sd"] =
                                      [IdlePass EXCEPT !.pc = "threw", !.mgr = ServerMgr]]
                        /\ UNCHANGED <<file, disk>>
                   ELSE /\ pass' = [pass EXCEPT !["sd"] = BegunPass(ServerMgr, processes)]
                        /\ IF Len(processes) # Len(readProcesses) \/ Len(processes) = 0
                           THEN saveProcesses(processes)
                           ELSE UNCHANGED <<file, disk>>
                /\ srv' = [srv EXCEPT !.sdPc = "final_cleanup", !.isInitialized = FALSE,
                                      !.latestQrCode = FALSE, !.lastEvent = "destroyed",
                                      !.sse = FALSE,
                                      !.sdLog = srv.sdLog \o steps]
     ELSE IF ShutdownCatches
          THEN /\ ok => closed
               /\ PassBegin("sd", IndexMgr)
               /\ srv' = [srv EXCEPT !.sdPc = "emergency_cleanup",
                                     !.isInitialized = IF ok THEN FALSE ELSE srv.isInitialized,
                                     !.latestQrCode = IF ok THEN FALSE ELSE srv.latestQrCode,
                                     !.lastEvent = IF ok THEN "destroyed" ELSE srv.lastEvent,
                                     !.sdLog = srv.sdLog
                                               \o (IF ok THEN <<"destroyed">> ELSE <<>>)
                                               \o <<"caught", "reclaim">>]
          ELSE /\ srv' = [srv EXCEPT !.sdPc = "threw", !.threw = srv.threw + 1]
               /\ UNCHANGED <<file, disk, pass>>
  /\ UNCHANGED <<clock, replay, idem, sw>>

\* index.ts:57, 66-71  without a server the pass awaited by gracefulShutdown
\* threw: the catch awaits the pass of the module's manager once more.
\* No run of one server takes this step, and it is no disjunct of Next: the
\* handler finds no server only while main awaits its first pass over a
\* registry that was read as a non-empty array, and a pass throws only over
\* a registry that is no array, which no pass and no registration writes
ShutdownCaught ==
  /\ Alive
  /\ srv.sdPc = "noserver_cleanup"
  /\ pass["sd"].pc = "threw"
  /\ PassBegin("sd", IndexMgr)
  /\ srv' = [srv EXCEPT !.sdPc = "emergency_cleanup",
                        !.sdLog = srv.sdLog \o <<"reclaim_failed", "caught", "reclaim">>]
  /\ UNCHANGED <<clock, os, replay, idem, sw>>

\* the reclaim pass awaited last by the shutdown has settled (a throw of the
\* pass of shutdown() is caught at server.ts:128, one of the emergency pass
\* at index.ts:72): the exit is scheduled (index.ts:60-65 with code 0,
\* index.ts:76-79 with code 1) and the call of gracefulShutdown returns
ShutdownFinished ==
  /\ Alive
  /\ \/ srv.sdPc \in {"final_cleanup", "emergency_cleanup"} /\ Settled("sd")
     \/ srv.sdPc = "noserver_cleanup" /\ pass["sd"].pc = "done"
  /\ pass' = [pass EXCEPT !["sd"] = IdlePass]
  /\ srv' = [srv EXCEPT !.sdPc = "exit_scheduled",
                        !.serverInstance =
                           IF srv.sdPc = "final_cleanup" THEN FALSE ELSE srv.serverInstance,
                        !.exitCode = IF srv.sdPc = "emergency_cleanup" THEN "1" ELSE "0",
                        !.returned = srv.returned + 1,
                        !.sdLog = srv.sdLog
                          \o <<IF pass["sd"].pc = "done" THEN "reclaimed" ELSE "reclaim_failed",
                               IF srv.sdPc = "emergency_cleanup" THEN "exit1" ELSE "exit0">>]
  /\ UNCHANGED <<clock, os, file, disk, replay, idem, sw>>

\* index.ts:63-65, 77-79  the timer fires: process.exit(code)
ProcessExit ==
  /\ Idle
  /\ srv.exitCode # "none"
  /\ srv' = [srv EXCEPT !.exited = TRUE]
  /\ UNCHANGED <<clock, os, file, disk, pass, replay, idem, sw>>

\* the steps of the reclaim passes of the server process
ServerPassProbe(t) == Idle /\ PassProbe(t)

ServerPassKill(t) == Idle /\ PassKill(t)

PidsOf(processes) == {processes[k].pid : k \in 1..Len(processes)}

DupFree(processes) ==
  \A j, k \in 1..Len(processes) : processes[j].pid = processes[k].pid => j = k

NoIdem == [probeErr |-> {}, killErr |-> {}, runs |-> 0, input |-> <<>>, first |-> <<>>]

\* the server process before main() runs
NoServer ==
  [mainPc |-> "start", sdPc |-> "none", isShuttingDown |-> FALSE,
   serverInstance |-> FALSE, isInitialized |-> FALSE, clientPid |-> NoPid,
   pid |-> NoPid, signals |-> 0, calls |-> 0, returned |-> 0, threw |-> 0,
   teardowns |-> 0, exitCode |-> "none", exited |-> FALSE,
   initError |-> FALSE, inits |-> 0, starts |-> 0, sse |-> FALSE,
   found |-> NoPid, result |-> "none", latestQrCode |-> FALSE, lastEvent |-> "none",
   toolPc |-> "idle", inFlight |-> 0,
   mainLog |-> <<>>, sdLog |-> <<>>]

\* the manual sweep before it is run
NoSweep == [pc |-> "start", tty |-> FALSE, found |-> <<>>, i |-> 0, confirmed |-> FALSE]

NoReplay == [pids |-> {}, last |-> [pid \in Pids |-> "none"], threw |-> FALSE]

\* ------------------------------------------------------------------------
\* SpecManager: the BrowserProcessManager API called in any order, in an
\* environment where processes come and go and time passes.
\* ------------------------------------------------------------------------
\* what earlier runs left in the file: entries of a manager that is gone
LeftOver == [pid : Pids, startTime : {0}, serverInstanceId : {DeadId}]

InitialFiles == {<<>>} \cup {<<e>> : e \in LeftOver}

InitManager ==
  /\ clock = 0
  /\ os \in [Pids -> {"wa", NoProc}]
  /\ file \in InitialFiles
  /\ disk = "array"
  /\ pass = [t \in Threads |-> IdlePass]
  /\ replay = NoReplay
  /\ idem = NoIdem
  /\ srv = NoServer
  /\ sw = NoSweep

ApiCleanup(t, id) ==
  /\ pass[t].pc = "idle"
  /\ PassBegin(t, id)
  /\ UNCHANGED <<clock, os, others>>

\* the calls of the API come one after another: a registration is made
\* between two reclaim passes of the caller
ApiRegister(id, pid) ==
  /\ pass["main"].pc = "idle"
  /\ registerProcess(id, pid)
  /\ UNCHANGED <<clock, os, pass, others>>

ApiUnregister(id, pid) ==
  /\ pass["main"].pc = "idle"
  /\ unregisterProcess(id, pid)
  /\ UNCHANGED <<clock, os, pass, others>>

ApiReturn(t) == PassReturn(t) /\ UNCHANGED <<clock, os, file, disk, others>>

NextManager ==
  \/ \E id \in {ServiceMgr, SweepMgr} : ApiCleanup("main", id)
  \/ PassProbe("main")
  \/ PassKill("main")
  \/ ApiReturn("main")
  \/ \E pid \in Pids \cup {NoPid} : ApiRegister(ServiceMgr, pid)
  \/ \E pid \in Pids \cup {NoPid} : ApiUnregister(ServiceMgr, pid)
  \/ Tick
  \/ \E pid \in Pids : ProcExit(pid)
  \/ \E pid \in Pids : ProcSpawn(pid, "wa")

SpecManager == InitManager /\ [][NextManager]_vars

\* ------------------------------------------------------------------------
\* SpecReuse: the calls of one manager as in SpecManager, on a machine where
\* the other programs come and go too: a process id that a browser had is
\* given by the operating system to whatever process starts next.
\* ------------------------------------------------------------------------
InitReuse ==
  /\ clock = 0
  /\ os \in [Pids -> Cmds \cup {NoProc}]
  /\ file \in InitialFiles
  /\ disk = "array"
  /\ pass = [t \in Threads |-> IdlePass]
  /\ replay = NoReplay
  /\ idem = NoIdem
  /\ srv = NoServer
  /\ sw = NoSweep

\* whatsapp.ts:166-169  the service registers the pid of its browser
ReuseRegister(pid) ==
  /\ os[pid] = "wa"
  /\ ApiRegister(ServiceMgr, pid)

NextReuse ==
  \/ \E id \in {ServiceMgr, SweepMgr} : ApiCleanup("main", id)
  \/ PassProbe("main")
  \/ PassKill("main")
  \/ ApiReturn("main")
  \/ \E pid \in Pids : ReuseRegister(pid)
  \/ Tick
  \/ \E pid \in Pids : ProcExit(pid)
  \/ \E pid \in Pids, c \in Cmds : ProcSpawn(pid, c)

SpecReuse == InitReuse /\ [][NextReuse]_vars

SnapshotPids(p) == PidsOf(p.processes)

\* ------------------------------------------------------------------------
\* Text: command lines and the operator's answer are sequences of
\* characters.
\* ------------------------------------------------------------------------
UpperCase == <<"A", "B", "C", "D", "E", "F", "G", "H", "I", "J", "K", "L", "M", "N", "O", "P", "Q", "R", "S", "T", "U", "V", "W", "X", "Y", "Z">>
LowerCase == <<"a", "b", "c", "d", "e", "f", "g", "h", "i", "j", "k", "l", "m", "n", "o", "p", "q", "r", "s", "t", "u", "v", "w", "x", "y", "z">>

\* String.prototype.toLowerCase
ToLowerCase(text) ==
  [k \in 1..Len(text) |->
     IF \E n \in 1..Len(UpperCase) : UpperCase[n] = text[k]
     THEN LowerCase[CHOOSE n \in 1..Len(UpperCase) : UpperCase[n] = text[k]]
     ELSE text[k]]

\* String.prototype.includes
Includes(text, part) ==
  \E t \in {text} :
    \E k \in 1..(Len(t) - Len(part) + 1) : SubSeq(t, k, k + Len(part) - 1) = part

WhiteSpace == {" ", "\n", "\t", "\r"}

\* String.prototype.trim
Trim(text) ==
  LET black == {k \in 1..Len(text) : text[k] \notin WhiteSpace} IN
  IF black = {}
  THEN <<>>
  ELSE SubSeq(text, CHOOSE k \in black : \A j \in black : k <= j,
                    CHOOSE k \in black : \A j \in black : k >= j)

\* line.trim().split(/\s+/): the words of a line
RECURSIVE Words(_)
Words(text) ==
  LET t == Trim(text) IN
  IF t = <<>>
  THEN <<>>
  ELSE LET white == {k \in 1..Len(t) : t[k] \in WhiteSpace} IN
       IF white = {}
       THEN <<t>>
       ELSE LET k == CHOOSE w \in white : \A j \in white : w <= j
            IN <<SubSeq(t, 1, k - 1)>> \o Words(SubSeq(t, k + 1, Len(t)))

\* parts.join(' ')
RECURSIVE JoinWords(_)
JoinWords(parts) ==
  IF Len(parts) = 0 THEN <<>>
  ELSE IF Len(parts) = 1 THEN parts[1]
  ELSE parts[1] \o <<" ">> \o JoinWords(Tail(parts))

\* the command lines of the processes of the model's host: the browser that
\* puppeteer launches for the client, a Chrome of the user, and an editor
CommandLine(c) ==
  CASE c = "wa" -> <<"c", "h", "r", "o", "m", "e", " ", "-", "-", "h", "e", "a", "d", "l", "e", "s", "s", " ", "-", "-", "u", "s", "e", "r", "-", "d", "a", "t", "a", "-", "d", "i", "r", "=", "w", "h", "a", "t", "s", "a", "p", "p", "-", "s", "e", "s", "s", "i", "o", "n", "s">>
    [] c = "plain" -> <<"C", "h", "r", "o", "m", "e", " ", "-", "-", "t", "y", "p", "e", "=", "r", "e", "n", "d", "e", "r", "e", "r">>
    [] c = "vim" -> <<"v", "i", "m", " ", "c", "h", "r", "o", "m", "e", ".", "t", "x", "t">>

\* the decimal digits of a pid, and back (parseInt)
Digits == <<"0", "1", "2", "3", "4", "5", "6", "7", "8", "9">>
PidText(pid) == <<Digits[pid + 1]>>
ParseInt(text) == (CHOOSE n \in 1..Len(Digits) : Digits[n] = text[1]) - 1

\* ------------------------------------------------------------------------
\* The manual sweep: cleanup-browsers.ts.
\* ------------------------------------------------------------------------
\* one line of `ps -eo pid,command`
PsLine(pid) == PidText(pid) \o <<" ">> \o CommandLine(os[pid])

\* lines 43-57: `ps -eo pid,command | grep -i chrome`, without the lines that
\* contain 'grep', each parsed into pid and command (an empty output makes
\* the pipeline fail, which line 58 turns into the empty list)
RECURSIVE ChromeFrom(_)
ChromeFrom(pid) ==
  IF pid > MaxPid
  THEN <<>>
  ELSE LET rest == ChromeFrom(pid + 1) IN
       IF /\ os[pid] # NoProc
          /\ Includes(ToLowerCase(PsLine(pid)), <<"c", "h", "r", "o", "m", "e">>)
          /\ ~Includes(PsLine(pid), <<"g", "r", "e", "p">>)
       THEN LET parts == Words(PsLine(pid))
            IN <<[pid |-> ParseInt(parts[1]), command |-> JoinWords(Tail(parts))]>> \o rest
       ELSE rest

findChromeBrowsers == ChromeFrom(1)

\* lines 69-75
whatsAppIndicators ==
  {<<"w", "h", "a", "t", "s", "a", "p", "p">>,
   <<"p", "u", "p", "p", "e", "t", "e", "e", "r">>,
   <<"h", "e", "a", "d", "l", "e", "s", "s">>,
   <<"u", "s", "e", "r", "-", "d", "a", "t", "a", "-", "d", "i", "r", "=">>,
   <<"w", "h", "a", "t", "s", "a", "p", "p", "-", "s", "e", "s", "s", "i", "o", "n", "s">>}

\* lines 78-79
HasIndicator(command) ==
  \E indicator \in whatsAppIndicators : Includes(ToLowerCase(command), indicator)

\* lines 67-81
identifyWhatsAppChromeBrowsers(processes) ==
  SelectSeq(processes, LAMBDA process : HasIndicator(process.command))

\* what the operator may type at the prompt
Responses ==
  {<<"y", "\n">>,
   <<"Y", "E", "S", "\n">>,
   <<"n", "\n">>,
   <<"\n">>}

\* lines 118, 124: the answer, trimmed and lower-cased, is 'y' or 'yes'
Confirms(data) ==
  ToLowerCase(Trim(data)) \in {<<"y">>, <<"y", "e", "s">>}

\* lines 87-91: the sweep makes its own manager and awaits its reclaim pass
SweepStart ==
  /\ sw.pc = "start"
  /\ PassBegin("sweep", SweepMgr)
  /\ sw' = [sw EXCEPT !.pc = "cleanup"]
  /\ UNCHANGED <<clock, os, replay, idem, srv>>

\* line 94: the reclaim pass has returned, findChromeBrowsers is awaited
SweepFind ==
  /\ sw.pc = "cleanup"
  /\ pass["sweep"].pc = "done"
  /\ pass' = [pass EXCEPT !["sweep"] = IdlePass]
  /\ sw' = [sw EXCEPT !.pc = "find"]
  /\ UNCHANGED <<clock, os, file, disk, replay, idem, srv>>

\* lines 94-131: the list of Chrome processes is in; the candidates are
\* identified and shown; on a terminal the operator is asked, else the kills
\* start
SweepFound ==
  /\ sw.pc = "find"
  /\ \E whatsAppChromeProcesses \in {identifyWhatsAppChromeBrowsers(findChromeBrowsers)} :
     sw' = [sw EXCEPT !.found = whatsAppChromeProcesses,
                      !.pc = IF Len(whatsAppChromeProcesses) = 0 THEN "done"
                             ELSE IF sw.tty THEN "ask" ELSE "kill",
                      !.i = IF Len(whatsAppChromeProcesses) # 0 /\ ~sw.tty THEN 1 ELSE 0]
  /\ UNCHANGED <<clock, os, file, disk, pass, replay, idem, srv>>

\* lines 116-127: the operator's answer arrives
SweepAnswer(data) ==
  /\ sw.pc = "ask"
  /\ IF Confirms(data)
     THEN sw' = [sw EXCEPT !.pc = "kill", !.i = 1, !.confirmed = TRUE]
     ELSE sw' = [sw EXCEPT !.pc = "done"]
  /\ UNCHANGED <<clock, os, file, disk, pass, replay, idem, srv>>

\* lines 135-143: the kill of candidate i returns
SweepKill ==
  /\ sw.pc = "kill"
  /\ \E killed \in KillOutcomes(sw.found[sw.i].pid) :
       KillEffect(sw.found[sw.i].pid, killed)
  /\ sw' = IF sw.i = Len(sw.found)
           THEN [sw EXCEPT !.pc = "done"]
           ELSE [sw EXCEPT !.i = sw.i + 1]
  /\ UNCHANGED <<clock, file, disk, pass, replay, idem, srv>>

\* ------------------------------------------------------------------------
\* SpecSweep: the manual sweep run on a host where earlier runs left
\* registry entries and processes behind, where time passes and processes
\* end and start (a pid that got free is given to a new process).
\* ------------------------------------------------------------------------
InitSweep ==
  /\ clock = 0
  /\ os \in [Pids -> {"wa", NoProc}]
  /\ file \in InitialFiles
  /\ disk = "array"
  /\ pass = [t \in Threads |-> IdlePass]
  /\ replay = NoReplay
  /\ idem = NoIdem
  /\ srv = NoServer
  /\ \E tty \in BOOLEAN : sw = [NoSweep EXCEPT !.tty = tty]

NextSweep ==
  \/ SweepStart
  \/ PassProbe("sweep")
  \/ PassKill("sweep")
  \/ SweepFind
  \/ SweepFound
  \/ \E data \in Responses : SweepAnswer(data)
  \/ SweepKill
  \/ Tick
  \/ \E pid \in Pids : ProcExit(pid)
  \/ \E pid \in Pids, c \in {"plain", "vim"} : ProcSpawn(pid, c)

SpecSweep == InitSweep /\ [][NextSweep]_vars

\* ------------------------------------------------------------------------
\* SpecTwo: a server process that starts and serves, and the manual sweep
\* run meanwhile in the same working directory as a second supervisor.
\* ------------------------------------------------------------------------
NextTwo ==
  \/ MainStart
  \/ MainConstruct
  \/ MainInitialize
  \/ MainClientInitialize
  \/ \E pid \in Pids : MainBrowserLaunched(pid)
  \/ MainClientInitialized(TRUE)
  \/ ServerPassProbe("main")
  \/ ServerPassKill("main")
  \/ SweepStart
  \/ PassProbe("sweep")
  \/ PassKill("sweep")
  \/ SweepFind
  \/ SweepFound
  \/ \E data \in Responses : SweepAnswer(data)
  \/ SweepKill
  \/ Tick

SpecTwo == InitSweep /\ [][NextTwo]_vars

\* ------------------------------------------------------------------------
\* Spec: one server process from main() on, with signals and errors that
\* trigger gracefulShutdown, on a host where time passes and processes end.
\* ------------------------------------------------------------------------
Signals == {"SIGINT", "SIGTERM", "uncaughtException", "unhandledRejection"}

ServerThreads == {"main", "sd"}

Init ==
  /\ clock = 0
  /\ os \in [Pids -> {"wa", NoProc}]
  /\ disk \in {"array", "absent", "object"}
  /\ file \in IF disk = "array" THEN InitialFiles ELSE {<<>>}
  /\ pass = [t \in Threads |-> IdlePass]
  /\ replay = NoReplay
  /\ idem = NoIdem
  /\ srv = NoServer
  /\ sw = NoSweep

Next ==
  \/ MainStart
  \/ MainConstruct
  \/ MainInitialize
  \/ MainClientInitialize
  \/ \E pid \in Pids : MainBrowserLaunched(pid)
  \/ \E ok \in BOOLEAN : MainClientInitialized(ok)
  \/ \E sig \in Signals : Signal(sig)
  \/ \E ok \in BOOLEAN, closed \in BOOLEAN : ShutdownDestroyed(ok, closed)
  \/ ShutdownFinished
  \/ ProcessExit
  \/ \E t \in ServerThreads : ServerPassProbe(t)
  \/ \E t \in ServerThreads : ServerPassKill(t)
  \/ Tick
  \/ \E pid \in Pids : ProcExit(pid)

Spec == Init /\ [][Next]_vars

\* SpecLive: the server process when every awaited step returns: the code
\* that awaits a settled reclaim pass resumes, and client.destroy() and the
\* process queries and kills of the passes of the shutdown answer (with
\* success or with an error)
Fairness ==
  /\ WF_vars(MainConstruct)
  /\ WF_vars(MainInitialize)
  /\ WF_vars(MainClientInitialize)
  /\ WF_vars(\E ok \in BOOLEAN, closed \in BOOLEAN : ShutdownDestroyed(ok, closed))
  /\ WF_vars(ShutdownFinished)
  /\ WF_vars(ServerPassProbe("sd"))
  /\ WF_vars(ServerPassKill("sd"))

\* a shutdown lasts seconds while the clock of the model advances in steps
\* of ten minutes: the server starts at any time of the clock, and no step
\* of the clock falls into its run
InitLive ==
  /\ clock \in Times
  /\ os \in [Pids -> {"wa", NoProc}]
  /\ disk \in {"array", "absent", "object"}
  /\ file \in IF disk = "array" THEN InitialFiles ELSE {<<>>}
  /\ pass = [t \in Threads |-> IdlePass]
  /\ replay = NoReplay
  /\ idem = NoIdem
  /\ srv = NoServer
  /\ sw = NoSweep

NextLive ==
  \/ MainStart
  \/ MainConstruct
  \/ MainInitialize
  \/ MainClientInitialize
  \/ \E pid \in Pids : MainBrowserLaunched(pid)
  \/ \E ok \in BOOLEAN : MainClientInitialized(ok)
  \/ \E sig \in Signals : Signal(sig)
  \/ \E ok \in BOOLEAN, closed \in BOOLEAN : ShutdownDestroyed(ok, closed)
  \/ ShutdownFinished
  \/ ProcessExit
  \/ \E t \in ServerThreads : ServerPassProbe(t)
  \/ \E t \in ServerThreads : ServerPassKill(t)
  \/ \E pid \in Pids : ProcExit(pid)

SpecLive == InitLive /\ [][NextLive]_vars /\ Fairness

\* ------------------------------------------------------------------------
\* SpecService: the session service called by its users.  initialize() is
\* called again and again (as the logout tool does after logout()), each
\* call after the one before has returned; the backend reports ready and
\* disconnected in between.
\* ------------------------------------------------------------------------
InitService ==
  /\ clock = 0
  /\ os \in [Pids -> {"wa", NoProc}]
  /\ disk = "array"
  /\ file \in InitialFiles
  /\ pass = [t \in Threads |-> IdlePass]
  /\ replay = NoReplay
  /\ idem = NoIdem
  /\ srv = [NoServer EXCEPT !.mainPc = "serving", !.serverInstance = TRUE]
  /\ sw = NoSweep

\* a call of WhatsAppService.initialize() by a user of the service
ServiceInitialize ==
  /\ Idle
  /\ srv.mainPc = "serving"
  /\ srv.starts < MaxStarts
  /\ InitializeEnter([srv EXCEPT !.starts = srv.starts + 1])
  /\ UNCHANGED <<clock, os, replay, idem, sw>>

\* whatsapp.ts:115-118  the backend emits 'ready'
Ready ==
  /\ srv.mainPc \in {"injecting", "serving"}
  /\ srv.inits > 0
  /\ ~srv.isInitialized
  /\ srv' = [srv EXCEPT !.isInitialized = TRUE, !.lastEvent = "ready"]
  /\ UNCHANGED <<clock, os, file, disk, pass, replay, idem, sw>>

\* a slip in the handler: the flag left as it is
FlagOnDisconnect_Kept == srv.isInitialized

\* whatsapp.ts:142  this.isInitialized = false
FlagOnDisconnect == FALSE

\* whatsapp.ts:140-146  the backend emits 'disconnected'
Disconnected ==
  /\ srv.inits > 0
  /\ srv.isInitialized \/ srv.latestQrCode \/ srv.lastEvent # "disconnected"
  /\ srv' = [srv EXCEPT !.isInitialized = FlagOnDisconnect, !.latestQrCode = FALSE,
                        !.lastEvent = "disconnected"]
  /\ UNCHANGED <<clock, os, file, disk, pass, replay, idem, sw>>

NextService ==
  \/ ServiceInitialize
  \/ MainClientInitialize
  \/ \E pid \in Pids : MainBrowserLaunched(pid)
  \/ \E ok \in BOOLEAN : MainClientInitialized(ok)
  \/ Ready
  \/ Disconnected
  \/ ServerPassProbe("main")
  \/ ServerPassKill("main")
  \/ Tick
  \/ \E pid \in Pids : ProcExit(pid)

SpecService == InitService /\ [][NextService]_vars

\* ------------------------------------------------------------------------
\* SpecSession: the whole life of a session of the service: initialize(),
\* destroy() and logout() called one after the other by the users of the
\* service, and the events of the backend (qr, authenticated, ready,
\* disconnected) in between, all within the hour in which no entry of the
\* registry gets old enough to be reclaimed.
\* ------------------------------------------------------------------------
InitSession ==
  /\ clock = 0
  /\ os \in [Pids -> {"wa", NoProc}]
  /\ disk \in {"array", "object"}
  /\ file \in IF disk = "array" THEN InitialFiles ELSE {<<>>}
  /\ pass = [t \in Threads |-> IdlePass]
  /\ replay = NoReplay
  /\ idem = NoIdem
  /\ srv = [NoServer EXCEPT !.mainPc = "serving", !.serverInstance = TRUE]
  /\ sw = NoSweep

\* whatsapp.ts:99-103  the backend emits 'qr': the challenge is cached
Qr ==
  /\ srv.inits > 0
  /\ ~srv.isInitialized
  /\ ~srv.latestQrCode
  /\ srv' = [srv EXCEPT !.latestQrCode = TRUE]
  /\ UNCHANGED <<clock, os, file, disk, pass, replay, idem, sw>>

\* whatsapp.ts:105-108  the backend emits 'authenticated'
Authenticated ==
  /\ srv.latestQrCode
  /\ srv' = [srv EXCEPT !.latestQrCode = FALSE]
  /\ UNCHANGED <<clock, os, file, disk, pass, replay, idem, sw>>

\* destroy() and logout() have the same shape
TeardownKinds == {"destroy", "logout"}

\* the event that a teardown that went well stands for
TeardownEvent(kind) == IF kind = "destroy" THEN "destroyed" ELSE "loggedout"

\* whatsapp.ts:180-188, 209-216  destroy() or logout() up to its await: the
\* pid of the browser is looked up, then client.destroy() or
\* client.logout() is awaited
TeardownEnter(kind, pid) ==
  /\ srv.mainPc = "serving"
  /\ pid \in BrowserPidOutcomes
  /\ srv.teardowns < MaxTeardowns
  /\ srv' = [srv EXCEPT !.mainPc = kind, !.pid = pid, !.result = "none",
                        !.teardowns = srv.teardowns + 1]
  /\ UNCHANGED <<clock, os, file, disk, pass, replay, idem, sw>>

\* whatsapp.ts:188-206, 216-229  the call of the backend has settled.  When
\* it resolved the flag and the cached challenge are reset and the pid read
\* before is unregistered, when there is one; when it rejected, or the
\* unregister threw, the error goes to the caller.  A destroy that resolved
\* has closed the browser; after a logout it may be running still.
TeardownDone(ok, closed) ==
  /\ srv.mainPc \in TeardownKinds
  /\ (ok /\ srv.mainPc = "destroy") => closed
  /\ ~ok => ~closed
  /\ IF closed /\ srv.clientPid # NoPid /\ os[srv.clientPid] = "wa"
     THEN os' = [os EXCEPT ![srv.clientPid] = NoProc]
     ELSE UNCHANGED os
  /\ IF ok
     THEN LET r == [srv EXCEPT !.mainPc = "serving", !.isInitialized = FALSE,
                               !.latestQrCode = FALSE,
                               !.lastEvent = TeardownEvent(srv.mainPc)]
          IN /\ unregisterProcess(ServiceMgr, srv.pid)
             /\ srv' = [r EXCEPT !.result = IF UnregisterThrows(srv.pid)
                                            THEN "error" ELSE "ok"]
     ELSE /\ srv' = [srv EXCEPT !.mainPc = "serving", !.result = "error"]
          /\ UNCHANGED <<file, disk>>
  /\ UNCHANGED <<clock, pass, replay, idem, sw>>

NextSession ==
  \/ ServiceInitialize
  \/ MainClientInitialize
  \/ \E pid \in Pids : MainBrowserLaunched(pid)
  \/ \E ok \in BOOLEAN : MainClientInitialized(ok)
  \/ Ready
  \/ Disconnected
  \/ Qr
  \/ Authenticated
  \/ \E kind \in TeardownKinds, pid \in Pids \cup {NoPid} : TeardownEnter(kind, pid)
  \/ \E ok \in BOOLEAN, closed \in BOOLEAN : TeardownDone(ok, closed)
  \/ ServerPassProbe("main")

SpecSession == InitSession /\ [][NextSession]_vars

\* ------------------------------------------------------------------------
\* SpecTool: two callers of initialize() on one service: the one of
\* SpecService, and a tool call (logoutFromWhatsApp, after its logout())
\* that arrives while the first caller is awaiting.
\* ------------------------------------------------------------------------
\* tools/auth.ts:73, whatsapp.ts:153-160  the tool calls initialize()
ToolInitialize ==
  /\ Idle
  /\ srv.toolPc = "idle"
  /\ srv.starts < MaxStarts
  /\ IF AlreadyInitialized(srv)
     THEN /\ srv' = [srv EXCEPT !.starts = srv.starts + 1]
          /\ UNCHANGED <<file, disk, pass>>
     ELSE /\ PassBegin("tool", ServiceMgr)
          /\ srv' = [srv EXCEPT !.starts = srv.starts + 1, !.toolPc = "init_cleanup"]
  /\ UNCHANGED <<clock, os, replay, idem, sw>>

\* whatsapp.ts:160-164  the pass of the tool's call has settled: if it
\* threw the call fails; else client.initialize() is called
ToolClientInitialize ==
  /\ srv.toolPc = "init_cleanup"
  /\ Settled("tool")
  /\ pass' = [pass EXCEPT !["tool"] = IdlePass]
  /\ srv' = IF pass["tool"].pc = "threw"
            THEN [srv EXCEPT !.toolPc = "idle"]
            ELSE [srv EXCEPT !.toolPc = "initializing", !.inits = srv.inits + 1,
                             !.inFlight = srv.inFlight + 1]
  /\ UNCHANGED <<clock, os, file, disk, replay, idem, sw>>

\* whatsapp.ts:164-177  client.initialize() of the tool's call has settled
ToolClientInitialized(ok) ==
  /\ Idle
  /\ srv.toolPc = "initializing"
  /\ IF InitializeSucceeded(ok)
     THEN \E pid \in BrowserPidOutcomes : registerProcess(ServiceMgr, pid)
     ELSE UNCHANGED <<file, disk>>
  /\ srv' = [srv EXCEPT !.toolPc = "idle", !.inFlight = srv.inFlight - 1]
  /\ UNCHANGED <<clock, os, pass, replay, idem, sw>>

NextTool ==
  \/ ServiceInitialize
  \/ MainClientInitialize
  \/ \E pid \in Pids : MainBrowserLaunched(pid)
  \/ \E ok \in BOOLEAN : MainClientInitialized(ok)
  \/ ToolInitialize
  \/ ToolClientInitialize
  \/ \E ok \in BOOLEAN : ToolClientInitialized(ok)
  \/ Ready
  \/ \E t \in {"main", "tool"} : ServerPassProbe(t)

SpecTool == InitService /\ [][NextTool]_vars

\* ------------------------------------------------------------------------
\* SpecRegistry: sequences of registerProcess / unregisterProcess calls,
\* from any registry, next to the set that replaying the calls gives.
\* ------------------------------------------------------------------------
AnyEntry == [pid : Pids, startTime : {0}, serverInstanceId : {DeadId, ServiceMgr}]

AnyFiles ==
  {<<>>} \cup {<<e>> : e \in AnyEntry} \cup {<<e, f>> : e \in AnyEntry, f \in AnyEntry}

InitRegistry ==
  /\ clock = 0
  /\ os = [pid \in Pids |-> NoProc]
  /\ file \in AnyFiles
  /\ disk = "array"
  /\ pass = [t \in Threads |-> IdlePass]
  /\ replay = [NoReplay EXCEPT !.pids = PidsOf(file)]
  /\ idem = NoIdem
  /\ srv = NoServer
  /\ sw = NoSweep

\* a call with a pid that is no pid (0, null) is refused: it is no call on
\* any process id, and the replay has nothing to apply
Replayed(call, pid) ==
  IF pid = NoPid
  THEN replay
  ELSE [replay EXCEPT !.pids = IF call = "register"
                               THEN replay.pids \cup {pid}
                               ELSE replay.pids \ {pid},
                      !.last = [replay.last EXCEPT ![pid] = call]]

CallRegister(id, pid) ==
  /\ registerProcess(id, pid)
  /\ replay' = Replayed("register", pid)
  /\ UNCHANGED <<clock, os, pass, idem, srv, sw>>

CallUnregister(id, pid) ==
  /\ unregisterProcess(id, pid)
  /\ replay' = Replayed("unregister", pid)
  /\ UNCHANGED <<clock, os, pass, idem, srv, sw>>

NextRegistry ==
  \/ \E id \in {ServiceMgr, SweepMgr}, pid \in Pids \cup {NoPid} : CallRegister(id, pid)
  \/ \E id \in {ServiceMgr, SweepMgr}, pid \in Pids \cup {NoPid} : CallUnregister(id, pid)
  \/ Tick

SpecRegistry == InitRegistry /\ [][NextRegistry]_vars

\* ------------------------------------------------------------------------
\* SpecDisk: the BrowserProcessManager API called on a backing file in any
\* condition: a JSON array, a file that cannot be written, no file, a text
\* that is no JSON, a JSON text that is no array.  replay.threw records that
\* a call threw to its caller.
\* ------------------------------------------------------------------------
InitDisk ==
  /\ clock = 0
  /\ os \in [Pids -> {"wa", NoProc}]
  /\ disk \in DiskKinds
  /\ file \in IF disk \in {"array", "locked"} THEN InitialFiles ELSE {<<>>}
  /\ pass = [t \in Threads |-> IdlePass]
  /\ replay = NoReplay
  /\ idem = NoIdem
  /\ srv = NoServer
  /\ sw = NoSweep

DiskRegister(id, pid) ==
  /\ pass["main"].pc = "idle"
  /\ registerProcess(id, pid)
  /\ replay' = [Replayed("register", pid) EXCEPT
                  !.threw = replay.threw \/ RegisterThrows(pid)]
  /\ UNCHANGED <<clock, os, pass, idem, srv, sw>>

DiskUnregister(id, pid) ==
  /\ pass["main"].pc = "idle"
  /\ unregisterProcess(id, pid)
  /\ replay' = [Replayed("unregister", pid) EXCEPT
                  !.threw = replay.threw \/ UnregisterThrows(pid)]
  /\ UNCHANGED <<clock, os, pass, idem, srv, sw>>

DiskCleanup(id) ==
  /\ pass["main"].pc = "idle"
  /\ PassBegin("main", id)
  /\ UNCHANGED <<clock, os, others>>

\* the caller's await of cleanupOrphanedProcesses() returns, or throws
DiskReturn ==
  /\ pass["main"].pc \in {"done", "threw"}
  /\ pass' = [pass EXCEPT !["main"] = IdlePass]
  /\ replay' = [replay EXCEPT !.threw = replay.threw \/ pass["main"].pc = "threw"]
  /\ UNCHANGED <<clock, os, file, disk, idem, srv, sw>>

NextDisk ==
  \/ \E pid \in Pids \cup {NoPid} : DiskRegister(ServiceMgr, pid)
  \/ \E pid \in Pids \cup {NoPid} : DiskUnregister(ServiceMgr, pid)
  \/ \E id \in {ServiceMgr, SweepMgr} : DiskCleanup(id)
  \/ PassProbe("main")
  \/ PassKill("main")
  \/ DiskReturn
  \/ Tick

SpecDisk == InitDisk /\ [][NextDisk]_vars

\* ------------------------------------------------------------------------
\* SpecShared: two instances on one registry file, with no lock: a server
\* (thread "main", the service's manager) that registers live browsers and
\* runs reclaim passes, and another instance (thread "sweep", its own
\* manager) that runs reclaim passes.  No process query fails.  replay.pids
\* is the set of pids the server has registered.
\* ------------------------------------------------------------------------
SharedThreads == {"main", "sweep"}

\* the manager object a thread of SpecShared calls
SharedMgr(t) == IF t = "main" THEN ServiceMgr ELSE SweepMgr

InitShared ==
  /\ clock = 0
  /\ os \in [Pids -> {"wa", NoProc}]
  /\ disk = "array"
  /\ file \in InitialFiles
  /\ pass = [t \in Threads |-> IdlePass]
  /\ replay = NoReplay
  /\ idem = NoIdem
  /\ srv = NoServer
  /\ sw = NoSweep

\* the server registers the pid of a browser of its own, between two of
\* its passes
SharedRegister(pid) ==
  /\ pass["main"].pc = "idle"
  /\ os[pid] = "wa"
  /\ registerProcess(ServiceMgr, pid)
  /\ replay' = [replay EXCEPT !.pids = replay.pids \cup {pid}]
  /\ UNCHANGED <<clock, os, pass, idem, srv, sw>>

SharedCleanup(t) ==
  /\ pass[t].pc = "idle"
  /\ PassBegin(t, SharedMgr(t))
  /\ UNCHANGED <<clock, os, others>>

SharedReturn(t) ==
  /\ pass[t].pc = "done"
  /\ pass' = [pass EXCEPT ![t] = IdlePass]
  /\ UNCHANGED <<clock, os, file, disk, others>>

\* the probe of a pass, when the process query itself does not fail: its
\* answer is whether the process is there
SharedProbe(t) ==
  /\ PassProbe(t)
  /\ LET r == pass'[t].running
     IN r[Len(r)] = (os[pass[t].exec.pid] # NoProc)

NextShared ==
  \/ \E pid \in Pids : SharedRegister(pid)
  \/ \E t \in SharedThreads : SharedCleanup(t)
  \/ \E t \in SharedThreads : SharedProbe(t)
  \/ \E t \in SharedThreads : PassKill(t)
  \/ \E t \in SharedThreads : SharedReturn(t)
  \/ Tick
  \/ \E pid \in Pids : ProcExit(pid)

SpecShared == InitShared /\ [][NextShared]_vars

\* ------------------------------------------------------------------------
\* SpecIdem: two reclaim passes in a row in a frozen environment: no clock
\* tick, no process coming or going by itself, and the probe and the kill
\* of a pid failing or not as fixed at the start.
\* ------------------------------------------------------------------------
IdemEntry == [pid : Pids, startTime : Times, serverInstanceId : {DeadId, ServiceMgr}]

IdemFiles ==
  {<<>>} \cup {<<e>> : e \in IdemEntry}
         \cup {ef \in {<<e, f>> : e \in IdemEntry, f \in IdemEntry} : DupFree(ef)}

InitIdem ==
  /\ clock \in Times
  /\ os \in [Pids -> {"wa", NoProc}]
  /\ file \in {f \in IdemFiles : \A k \in 1..Len(f) : f[k].startTime <= clock}
  /\ disk = "array"
  /\ pass = [t \in Threads |-> IdlePass]
  /\ replay = NoReplay
  /\ \E pe \in SUBSET Pids, ke \in SUBSET Pids :
       idem = [probeErr |-> pe, killErr |-> ke, runs |-> 0, input |-> file, first |-> <<>>]
  /\ srv = NoServer
  /\ sw = NoSweep

IdemBegin(id) ==
  /\ idem.runs < 2
  /\ pass["main"].pc = "idle"
  /\ PassBegin("main", id)
  /\ UNCHANGED <<clock, os, others>>

\* the probe of a pid answers as the frozen environment has it
IdemProbe ==
  /\ PassProbe("main")
  /\ LET pid == pass["main"].exec.pid
         r == pass'["main"].running
     IN r[Len(r)] = (os[pid] # NoProc /\ pid \notin idem.probeErr)

\* the kill of a pid answers as the frozen environment has it
IdemKill ==
  /\ PassKill("main")
  /\ LET pid == pass["main"].exec.pid
         k == pass["main"].i
     IN (pass'["main"].killed[k] = "ok") = (os[pid] # NoProc /\ pid \notin idem.killErr)

IdemReturn ==
  /\ PassReturn("main")
  /\ idem' = [idem EXCEPT !.runs = idem.runs + 1,
                           !.first = IF idem.runs = 0 THEN file ELSE idem.first]
  /\ UNCHANGED <<clock, os, file, disk, replay, srv, sw>>

NextIdem ==
  \/ \E id \in {ServiceMgr} : IdemBegin(id)
  \/ IdemProbe
  \/ IdemKill
  \/ IdemReturn

SpecIdem == InitIdem /\ [][NextIdem]_vars

\* the step in which the pass of thread t writes the registry back
PassCompletes(t) == pass[t].pc # "done" /\ pass'[t].pc = "done"

\* ------------------------------------------------------------------------
\* Properties of one reclaim pass.
\* ------------------------------------------------------------------------
Entries(p) == 1..Len(p.processes)

OwnEntry(p, k) == p.processes[k].serverInstanceId = p.mgr

\* C2: a reclaim pass never removes an entry whose probe returned true and
\* whose owner is the reclaiming manager or whose age is at most 10 minutes:
\* the entry is in the array written back, and no kill was attempted for it.
C2_LiveOwnOrYoungKept ==
  [][\A t \in Threads :
       PassCompletes(t) =>
         LET p == pass'[t] IN
         /\ file' = Kept(p)
         /\ \A k \in Entries(p) :
              (p.running[k] /\ (OwnEntry(p, k) \/ p.age[k] <= OrphanAgeMs))
                => (k \in Range(p.valid) /\ p.killed[k] = "none")]_vars

\* a finished pass that kept a running entry of its own manager that is
\* older than 10 minutes
C2_Witness ==
  \E t \in Threads :
    /\ pass[t].pc = "done"
    /\ \E k \in Entries(pass[t]) :
         /\ pass[t].running[k]
         /\ OwnEntry(pass[t], k)
         /\ pass[t].age[k] > OrphanAgeMs
         /\ k \in Range(pass[t].valid)

\* C3: a reclaim pass drops from the array it writes back every entry whose
\* probe returned false, whatever its age and owner, and attempts no kill
\* for it.
C3_DeadEntryDropped ==
  [][\A t \in Threads :
       PassCompletes(t) =>
         LET p == pass'[t] IN
         /\ file' = Kept(p)
         /\ \A k \in Entries(p) :
              ~p.running[k] => (k \notin Range(p.valid) /\ p.killed[k] = "none")]_vars

\* a finished pass that dropped, unkilled, an entry of another manager older
\* than 10 minutes whose probe returned false, and kept another entry
C3_Witness ==
  \E t \in Threads :
    /\ pass[t].pc = "done"
    /\ pass[t].valid # <<>>
    /\ \E k \in Entries(pass[t]) :
         /\ ~pass[t].running[k]
         /\ ~OwnEntry(pass[t], k)
         /\ pass[t].age[k] > OrphanAgeMs
         /\ pass[t].killed[k] = "none"
         /\ k \notin Range(pass[t].valid)

\* C4: in a reclaim pass an entry whose probe says running, whose owner is
\* another manager and whose age exceeds 10 minutes gets a kill attempt, and
\* when the kill succeeds the entry is absent from the array written back.
C4_OrphanKilledAndDropped ==
  [][\A t \in Threads :
       PassCompletes(t) =>
         LET p == pass'[t] IN
         /\ file' = Kept(p)
         /\ \A k \in Entries(p) :
              (p.running[k] /\ ~OwnEntry(p, k) /\ p.age[k] > OrphanAgeMs)
                => /\ p.killed[k] # "none"
                   /\ (p.killed[k] = "ok" => k \notin Range(p.valid))]_vars

\* a finished pass that killed a running orphan (the process is gone) and
\* wrote the registry back without its entry
C4_Witness ==
  \E t \in Threads :
    /\ pass[t].pc = "done"
    /\ \E k \in Entries(pass[t]) :
         /\ pass[t].running[k]
         /\ pass[t].killed[k] = "ok"
         /\ os[pass[t].processes[k].pid] = NoProc
         /\ k \notin Range(pass[t].valid)
         /\ pass[t].processes[k].pid \notin PidsOf(file)

\* C6: a reclaim pass probes and kills only pids of entries of the registry
\* it read: every command in flight targets such a pid, and a step of the
\* pass that ends a process ends one whose pid is in that registry.
C6_OnlyRegistryPidsTouched ==
  [][\A t \in Threads :
       /\ pass'[t].exec.cmd # "none"
            => pass'[t].exec.pid \in SnapshotPids(pass'[t])
       /\ (pass[t].pc = "kill" /\ pass'[t] # pass[t])
            => \A pid \in Pids :
                 os'[pid] # os[pid] => pid \in SnapshotPids(pass[t])]_vars

\* a finished pass that killed an orphan while a process whose pid is not in
\* the registry it read keeps running
C6_Witness ==
  \E t \in Threads :
    /\ pass[t].pc = "done"
    /\ \E k \in Entries(pass[t]) : pass[t].killed[k] = "ok"
    /\ \E pid \in Pids \ SnapshotPids(pass[t]) : os[pid] # NoProc

\* C17: when the kill of an orphaned entry fails, the entry is kept as it is
\* in the array written back (the next pass finds it and tries again), and
\* the pass goes on: every entry of the registry read has been probed when
\* the pass writes back.
C17_FailedKillKept ==
  [][\A t \in Threads :
       PassCompletes(t) =>
         LET p == pass'[t] IN
         /\ file' = Kept(p)
         /\ Len(p.running) = Len(p.processes)
         /\ \A k \in Entries(p) :
              p.killed[k] = "failed"
                => /\ k \in Range(p.valid)
                   /\ p.processes[k] \in Range(file')]_vars

\* a finished pass over two entries: the kill of the first, an orphan, has
\* failed, the second was probed after it, and the first is in the file
C17_Witness ==
  \E t \in Threads :
    /\ pass[t].pc = "done"
    /\ Len(pass[t].processes) = 2
    /\ pass[t].killed[1] = "failed"
    /\ Len(pass[t].running) = 2
    /\ os[pass[t].processes[1].pid] # NoProc
    /\ pass[t].processes[1] \in Range(file)

C8_RegistryIsReplay ==
  /\ PidsOf(file) = replay.pids
  /\ \A pid \in Pids :
       /\ replay.last[pid] = "register" => pid \in PidsOf(file)
       /\ replay.last[pid] = "unregister" => pid \notin PidsOf(file)

\* pid 1 was last unregistered and pid 2 last registered, by the sweep's
\* manager after the clock moved: the file holds pid 2 alone, re-stamped
C8_Witness ==
  /\ replay.last[1] = "unregister"
  /\ replay.last[2] = "register"
  /\ Len(file) = 1
  /\ file[1] = NewEntry(2, TickMs, SweepMgr)

\* C1: whatever number of shutdown triggers arrive (signals, uncaught
\* errors, a startup failure), in any interleaving, the teardown is entered
\* exactly once; no call of gracefulShutdown throws, and every call but the
\* one that runs the teardown has returned at once.
C1_ShutdownOnce ==
  /\ srv.calls >= 1 => srv.teardowns = 1
  /\ srv.threw = 0
  /\ srv.returned >= srv.calls - 1
  /\ srv.returned <= srv.calls
  /\ srv.exitCode # "none" => srv.returned = srv.calls

\* a startup failure and two signals have called gracefulShutdown, client
\* destroy failed in the one teardown, and all three calls have returned
C1_Witness ==
  /\ srv.mainPc = "failed"
  /\ srv.signals = MaxSignals
  /\ srv.calls = MaxSignals + 1
  /\ srv.returned = srv.calls
  /\ srv.teardowns = 1
  /\ srv.exitCode = "1"


\* ------------------------------------------------------------------------
\* Properties of the manual sweep and of two supervisors side by side.
\* ------------------------------------------------------------------------
\* a step of the manual sweep (its reclaim pass or its kill loop) in which
\* the process running under pid ends
SweepEnds(pid) ==
  /\ \/ pass["sweep"].pc = "kill" /\ pass'["sweep"] # pass["sweep"]
     \/ sw.pc = "kill" /\ sw' # sw
  /\ os[pid] # NoProc
  /\ os'[pid] = NoProc

\* the registry holds an entry for pid written by the manager with this id
RegisteredBy(id, pid) ==
  \E k \in 1..Len(file) : file[k].pid = pid /\ file[k].serverInstanceId = id

\* C5: a reclaim pass run by one supervisor instance never kills a running
\* browser process registered by a different supervisor instance that is
\* still active and still using it: while the server is serving and its
\* browser runs under the pid its service registered, no kill step of a
\* reclaim pass of another manager ends that process.
C5_NoKillOfActiveForeignBrowser ==
  [][\A t \in Threads :
       (/\ Alive
        /\ srv.mainPc = "serving"
        /\ srv.clientPid # NoPid
        /\ os[srv.clientPid] = "wa"
        /\ RegisteredBy(ServiceMgr, srv.clientPid)
        /\ pass[t].pc = "kill"
        /\ pass'[t] # pass[t]
        /\ pass[t].mgr # ServiceMgr
        /\ pass[t].exec.pid = srv.clientPid)
       => os'[srv.clientPid] = "wa"]_vars

\* C9: during a manual sweep run (reclaim pass and kill loop), no process
\* whose command line contains none of the signature substrings is killed,
\* even when the command line contains the name chrome.
C9_SweepKillsOnlySignatureMatches ==
  [][\A pid \in Pids :
       SweepEnds(pid) => HasIndicator(CommandLine(os[pid]))]_vars

\* C10: the manual sweep kills a process that is not in the registry only
\* after the operator has explicitly confirmed.
C10_UnregisteredKilledOnlyOnConfirmation ==
  [][\A pid \in Pids :
       SweepEnds(pid) /\ pid \notin PidsOf(file) => sw.confirmed]_vars

\* ------------------------------------------------------------------------
\* Properties of the registry on a backing file in any condition.
\* ------------------------------------------------------------------------
\* a call of the API has thrown to its caller
Thrown == replay.threw \/ \E t \in Threads : pass[t].pc = "threw"

\* C15: reading the registry gives the empty set when the backing file is
\* absent or malformed, and never raises: on such a file no call of register,
\* unregister or reclaim throws, and what a call writes is what it writes on
\* an empty registry (an array of at most the one entry registered).
C15_AbsentOrMalformedIsEmpty ==
  [][(disk \in {"absent", "garbage", "object"}) =>
       (/\ ~Thrown'
        /\ ((file' # file \/ disk' # disk) => (disk' = "array" /\ Len(file') <= 1)))
    ]_vars

\* C20: errors of the bookkeeping never propagate: whatever the backing
\* file is and whatever the probes and kills answer, no call of register,
\* unregister or reclaim throws to its caller.
C20_BookkeepingNeverThrows == ~Thrown

\* ------------------------------------------------------------------------
\* Properties of the session start and of the graceful shutdown.
\* ------------------------------------------------------------------------
\* the registry holds an entry written by the manager with this id
HasEntryOf(id) == \E k \in 1..Len(file) : file[k].serverInstanceId = id

\* C12: when the backend initialize fails, the start propagates the error
\* to its caller (main, which then calls gracefulShutdown) and registers no
\* process id: the registry holds no entry of the service's manager.
C12_FailedInitializeRegistersNothing ==
  srv.initError =>
    /\ srv.mainPc = "failed"
    /\ srv.calls >= 1
    /\ ~HasEntryOf(ServiceMgr)

\* client.initialize() failed after the browser was launched; the start
\* failed, the shutdown it triggered has run and the browser is still there
C12_Witness ==
  /\ srv.initError
  /\ srv.mainPc = "failed"
  /\ srv.clientPid # NoPid
  /\ os[srv.clientPid] = "wa"
  /\ srv.exitCode # "none"

\* C13: every invocation of the backend initialize is preceded by a
\* completed reclaim pass of the same initialize call (the pass of the
\* service's manager has returned when client.initialize() is called), and
\* every shutdown that ends with success (exit code 0) has awaited a reclaim
\* pass to its end after the backend destroy and the unregister; that pass
\* can have failed only on a registry file that is no array.
C13_ReclaimBeforeInitializeAndAfterUnregister ==
  [][/\ srv'.inits > srv.inits =>
          /\ pass["main"].pc = "done"
          /\ pass["main"].mgr = ServiceMgr
          /\ LET log == srv'.mainLog
                 n == Len(log)
             IN n >= 3 /\ log[n] = "initialize" /\ log[n - 1] = "reclaimed"
                       /\ log[n - 2] = "reclaim"
     /\ (srv.exitCode = "none" /\ srv'.exitCode = "0") =>
          /\ Settled("sd")
          /\ LET log == srv'.sdLog
                 n == Len(log)
             IN /\ n >= 3
                /\ log[n] = "exit0"
                /\ log[n - 1] \in {"reclaimed", "reclaim_failed"}
                /\ log[n - 1] = "reclaim_failed" => NotAnArray
                /\ log[n - 2] = "reclaim"
                /\ \A k \in 1..n : log[k] \in {"destroyed", "unregister"} => k < n - 2
    ]_vars

\* a server that initialized its backend once, was shut down with success,
\* unregistered its browser and ran the pass of shutdown() to its end
C13_Witness ==
  /\ srv.inits = 1
  /\ srv.exitCode = "0"
  /\ "unregister" \in Range(srv.sdLog)
  /\ "reclaimed" \in Range(srv.sdLog)

\* a failure of a step of the shutdown has been met
ShutdownStepFailed == \E k \in 1..Len(srv.sdLog) : srv.sdLog[k] \in {"caught", "reclaim_failed"}

\* C14: when a step of the shutdown sequence fails, the failure is caught
\* (no call throws), a reclaim pass is run after it, and the process then
\* exits with a non-zero code; a failure of the emergency pass is caught too
\* and the exit is scheduled all the same.
C14_FailureCaughtReclaimedExitNonZero ==
  /\ srv.threw = 0
  /\ srv.exitCode # "none" =>
       /\ \A k \in 1..Len(srv.sdLog) :
            srv.sdLog[k] = "caught" =>
              \E j \in (k + 1)..Len(srv.sdLog) : srv.sdLog[j] = "reclaim"
       /\ ShutdownStepFailed => srv.exitCode = "1"

\* the place of a step in the order of the shutdown sequence
StepRank(step) ==
  CASE step = "pid" -> 1
    [] step = "destroy" -> 2
    [] step = "destroyed" -> 3
    [] step = "unregister" -> 4
    [] step = "transports" -> 5
    [] step = "reclaim" -> 6
    [] step \in {"reclaimed", "reclaim_failed"} -> 7
    [] step \in {"exit0", "exit1"} -> 8
    [] OTHER -> 0

\* C16: the shutdown sequence runs in this order: the backend pid is read,
\* then the backend destroy is called and awaited, then that pid is
\* unregistered, then the transports are released, then one reclaim pass is
\* run and awaited, then the exit is scheduled; a shutdown of a server that
\* ends with code 0 has run all of them.
C16_ShutdownOrder ==
  "caught" \notin Range(srv.sdLog) =>
    /\ \A j, k \in 1..Len(srv.sdLog) :
         j < k => StepRank(srv.sdLog[j]) < StepRank(srv.sdLog[k])
    /\ "unregister" \in Range(srv.sdLog) => srv.pid # NoPid
    /\ ("destroyed" \in Range(srv.sdLog) /\ srv.pid # NoPid)
         => "unregister" \in Range(srv.sdLog)
    /\ ("exit0" \in Range(srv.sdLog) /\ "pid" \in Range(srv.sdLog))
         => {"destroy", "destroyed", "transports", "reclaim"} \subseteq Range(srv.sdLog)

\* a shutdown of a serving server with an SSE session gone through all of
\* the steps, the unregister of the browser's pid included
C16_Witness ==
  /\ srv.sdLog = <<"pid", "destroy", "destroyed", "unregister", "transports",
                   "reclaim", "reclaimed", "exit0">>
  /\ srv.mainPc = "serving"
  /\ srv.pid = srv.clientPid
  /\ os[srv.pid] = NoProc

\* the reclaim pass of thread t is between its read of the registry and its
\* write-back
InFlight(t) == pass[t].pc \in {"probe", "kill"}

\* thread u starts a reclaim pass in this step: it reads the registry
Begins(u) ==
  /\ pass[u].pc \in {"idle", "done", "threw"}
  /\ pass'[u] # pass[u]
  /\ pass'[u] # IdlePass

\* C18: within one server process no two registry operations interleave:
\* while the reclaim pass of one thread of control is between its read and
\* its write of the registry, no other operation of the process reads the
\* registry (starts a pass) or writes it (a register, an unregister, the
\* write-back of another pass).
C18_NoInterleavedRegistryOperations ==
  [][\A t \in ServerThreads :
       (InFlight(t) /\ pass'[t] = pass[t]) =>
         /\ file' = file
         /\ disk' = disk
         /\ \A u \in ServerThreads \ {t} : ~Begins(u)]_vars

\* C11: a call of initialize() on a session that is ready is a no-op: the
\* backend initialize is not invoked, no reclaim pass is started, the
\* registry file and the processes are left as they are, and the call has
\* returned (nothing of it is left to run, so no registration follows).
C11_InitializeWhenReadyIsNoOp ==
  [][(srv'.starts > srv.starts /\ srv.isInitialized) =>
       (/\ file' = file
        /\ disk' = disk
        /\ os' = os
        /\ srv'.inits = srv.inits
        /\ srv'.mainPc = "serving"
        /\ srv'.isInitialized
        /\ ~Begins("main"))
    ]_vars

\* the second call of initialize() has returned at once on a ready session
\* whose browser the first call registered
C11_Witness ==
  /\ srv.starts = 2
  /\ srv.inits = 1
  /\ srv.isInitialized
  /\ srv.mainPc = "serving"
  /\ srv.mainLog = <<"ready">>
  /\ \E k \in 1..Len(file) : /\ file[k].pid = srv.clientPid
                              /\ file[k].serverInstanceId = ServiceMgr

\* a registration that was lost: the server registered the pid, its
\* browser is alive, and the registry file does not hold it
Lost(pid) == pid \in replay.pids /\ os[pid] = "wa" /\ pid \notin PidsOf(file)

\* the reclaim pass of thread t ends in this step (line 197 is run)
Completes(t) == pass[t].pc \in {"idle", "probe", "kill"} /\ pass'[t].pc = "done"

\* C19: when a registration was lost to the write-back of another instance,
\* the next reclaim pass (one that reads the registry after the loss: it
\* starts now, or the file is still as the pass read it) puts things right:
\* when it ends, every registered browser that is still alive is in the
\* registry again.
C19_LostUpdateHealedByNextPass ==
  [][\A t \in SharedThreads :
       (Completes(t) /\ (pass[t].pc = "idle" \/ pass[t].processes = file)) =>
         \A pid \in Pids :
           (Lost(pid) /\ os'[pid] = "wa") => pid \in PidsOf(file')]_vars

\* ------------------------------------------------------------------------
\* Properties of the registry's content.
\* ------------------------------------------------------------------------
\* C22: from a registry with no duplicate, after any sequence of register,
\* unregister and reclaim calls the registry file holds at most one entry
\* for a process id; a register of a pid that is there (the one call that
\* changes the file and not its length) puts the entry of the pid, at its
\* place, to the current time and the caller's instance id and leaves every
\* other entry as it was.
C22_OneEntryPerPid ==
  [][/\ DupFree(file')
     /\ (pass' = pass /\ disk' = disk /\ file' # file /\ Len(file') = Len(file)) =>
          \E k \in 1..Len(file) :
            /\ file'[k] = NewEntry(file[k].pid, clock, ServiceMgr)
            /\ \A j \in 1..Len(file) : j # k => file'[j] = file[j]
    ]_vars

\* two entries, the first re-registered after the second was written
C22_Witness ==
  /\ disk = "array"
  /\ Len(file) = 2
  /\ file[1].serverInstanceId = ServiceMgr
  /\ file[1].startTime > file[2].startTime
  /\ replay.last[file[1].pid] = "register"

\* C23: unregisterProcess of a process id the registry does not hold writes
\* nothing: the file is left as it was (no file is created where there was
\* none, a file that is no JSON text is not replaced).
C23_UnregisterAbsentWritesNothing ==
  [][\A pid \in Pids :
       (/\ replay'.last[pid] = "unregister"
        /\ replay.last[pid] # "unregister"
        /\ pid \notin PidsOf(readProcesses)) =>
         (file' = file /\ disk' = disk)
    ]_vars

\* unregisterProcess was called where there is no registry file, and there
\* is none after it
C23_Witness ==
  /\ disk \in {"absent", "garbage"}
  /\ \E pid \in Pids : replay.last[pid] = "unregister"

\* C27: a reclaim pass kills only browsers: the process that runs under the
\* process id at the moment of the kill is a browser of a session, as the
\* one that was registered under the id, and never another program that the
\* operating system has given the id to since.
C27_KillsOnlyTheRegisteredProcess ==
  [][\A t \in Threads :
       (pass[t].pc = "kill" /\ pass'[t] # pass[t]) =>
         \A pid \in Pids :
           (os[pid] # NoProc /\ os'[pid] = NoProc) => os[pid] = "wa"]_vars

\* ------------------------------------------------------------------------
\* Properties of the session.
\* ------------------------------------------------------------------------
\* C21: when getBrowserPid gives no pid, initialize() succeeds and registers
\* nothing, and destroy() and logout() tear the backend down and unregister
\* nothing; no call fails for that reason: an initialize() that fails after
\* the backend answered has found a pid, and a destroy() or logout() that
\* fails with no pid has not torn anything down (the backend call itself
\* was rejected).
C21_NoPidFoundIsHarmless ==
  [][/\ (srv.mainPc = "injecting" /\ srv'.mainPc = "serving") =>
          /\ srv'.result = "error" => (srv'.initError \/ srv'.found # NoPid)
          /\ (~srv'.initError /\ srv'.found = NoPid) =>
                (srv'.result = "ok" /\ file' = file /\ disk' = disk)
     /\ (srv.mainPc \in TeardownKinds /\ srv'.mainPc = "serving" /\ srv.pid = NoPid) =>
          /\ file' = file
          /\ disk' = disk
          /\ srv'.result = "error" =>
                srv' = [srv EXCEPT !.mainPc = "serving", !.result = "error"]
    ]_vars

\* a session whose browser was launched and whose pid was found neither by
\* initialize(), which succeeded, nor by the teardown, which succeeded and
\* closed the browser
C21_Witness ==
  /\ srv.inits = 1
  /\ ~srv.initError
  /\ srv.clientPid # NoPid
  /\ os[srv.clientPid] = NoProc
  /\ srv.found = NoPid
  /\ srv.teardowns = 1
  /\ srv.pid = NoPid
  /\ srv.mainPc = "serving"
  /\ srv.result = "ok"
  /\ srv.lastEvent \in {"destroyed", "loggedout"}

\* C24: the flag isInitialized is true exactly when the last of the events
\* ready, disconnected, destroy resolved, logout resolved was ready; the
\* event disconnected sets the flag to false, clears the cached QR
\* challenge and leaves the registry file as it is.
C24_ReadinessFollowsLastEvent ==
  [][/\ srv'.isInitialized <=> srv'.lastEvent = "ready"
     /\ (srv'.lastEvent = "disconnected" /\ srv.lastEvent # "disconnected") =>
          (/\ ~srv'.isInitialized
           /\ ~srv'.latestQrCode
           /\ file' = file
           /\ disk' = disk)
    ]_vars

\* a session that was ready, with its browser registered, and that the
\* backend reported disconnected
C24_Witness ==
  /\ srv.lastEvent = "disconnected"
  /\ ~srv.isInitialized
  /\ srv.inits = 1
  /\ srv.found # NoPid
  /\ \E k \in 1..Len(file) : file[k].pid = srv.found

\* ------------------------------------------------------------------------
\* Properties of the shutdown against a start that is still running.
\* ------------------------------------------------------------------------
\* C25: when a graceful shutdown has ended with success (exit code 0), the
\* registry holds no entry for the browser of this server's session,
\* whatever the start was doing meanwhile.
C25_NoEntryAfterShutdown ==
  srv.exitCode = "0" => ~HasEntryOf(ServiceMgr)

\* C26: once a graceful shutdown has begun, the server process calls no
\* backend initialize and registers no process id.
C26_NothingStartedAfterShutdownBegan ==
  [][srv.isShuttingDown =>
       /\ srv'.inits = srv.inits
       /\ HasEntryOf(ServiceMgr)' => HasEntryOf(ServiceMgr)]_vars

\* C29: when the backend initialize fails in main, the process exits with
\* a code that is not zero.
C29_StartFailureExitsNonZero ==
  (srv.initError /\ srv.exitCode # "none") => srv.exitCode = "1"

\* C28: at most one call of the backend initialize is in flight for the
\* session at any time: a call of initialize() made before the backend has
\* reported ready does not call client.initialize() again.
C28_OneInitializeInFlight == srv.inFlight <= 1

\* ------------------------------------------------------------------------
\* Termination of the shutdown.
\* ------------------------------------------------------------------------
\* the number of times an exit was scheduled
ExitsScheduled ==
  Cardinality({k \in 1..Len(srv.sdLog) : srv.sdLog[k] \in {"exit0", "exit1"}})

\* the teardown failed: with a server, client.destroy() rejected or the
\* unregister of the pid read before it threw; without one, the reclaim pass
\* that gracefulShutdown awaits threw
TeardownFailed ==
  IF "pid" \in Range(srv.sdLog)
  THEN ~(/\ "destroyed" \in Range(srv.sdLog)
         /\ srv.pid # NoPid => "unregister" \in Range(srv.sdLog))
  ELSE Len(srv.sdLog) >= 2 /\ srv.sdLog[2] = "reclaim_failed"

\* C30: when every awaited step returns, the first call of gracefulShutdown
\* leads to the exit being scheduled; it is scheduled once, its code is
\* never changed, no error escapes gracefulShutdown, and the code is 1 when
\* the teardown failed and 0 when it went well.  (The teardown is the
\* destroy of the backend and the unregister; the safety-net pass that
\* shutdown() runs after it is not part of it, see C14.)
C30_ShutdownEndsWithOneExit ==
  /\ srv.isShuttingDown ~> srv.exitCode # "none"
  /\ [](/\ ExitsScheduled <= 1
        /\ srv.threw = 0
        /\ srv.exitCode # "none" =>
             /\ ExitsScheduled = 1
             /\ srv.exitCode = "1" <=> TeardownFailed)
  /\ [][srv.exitCode # "none" => srv'.exitCode = srv.exitCode]_vars

\* a shutdown whose destroy failed, that was triggered a second time
\* meanwhile, and that has scheduled the exit with code 1
C30_Witness ==
  /\ srv.exitCode = "1"
  /\ srv.signals = 2
  /\ srv.teardowns = 1
  /\ "destroyed" \notin Range(srv.sdLog)
  /\ srv.sdLog[Len(srv.sdLog)] = "exit1"

=============================================================================
